---- MODULE Spec2Model ----
(***************************************************************************)
(* Model of the Omni-audit document-processing pipeline: the two Inngest   *)
(* functions processFinancialDocument and processFinancialAudio, the       *)
(* extraction helpers extractFinancialData / analyzeAudio they call, and   *)
(* the FinancialDocument collection they update.                           *)
(*                                                                         *)
(* A record of the collection is a function from the field names that are  *)
(* present to their values (a MongoDB document); a field that is unset is  *)
(* simply not in the DOMAIN.  An error message is a sequence of string     *)
(* fragments, so that `${prefix}: ${error.message}` is concatenation and   *)
(* "contains verbatim" is "is a contiguous subsequence of".                *)
(***************************************************************************)
EXTENDS Integers, Sequences, FiniteSets, TLC

\* ---------------------------------------------------------------- bounds
\* runs the framework starts in one behaviour: one per delivered event and
\* one per re-execution of a step that raised
MaxRuns == 2

Jobs == 1..MaxRuns
Ids == {"d1", "d2"}
FilePathOf == [d \in Ids |-> IF d = "d1" THEN "/tmp/invoice.txt" ELSE "/tmp/call.wav"]
Kinds == {"document", "audio"}
\* media kind the upload declared for each identifier
MediaKindOf == [d \in Ids |-> IF d = "d1" THEN "document" ELSE "audio"]
Terminal == {"COMPLETED", "FAILED"}

\* ------------------------------------------------------------- messages
Msg(s) == <<s>>

\* `${prefix}${error.message}`
Wrap(prefix, inner) == <<prefix>> \o inner

\* inner occurs verbatim (contiguously) inside outer
IsInfix(inner, outer) ==
    \E i \in 0..(Len(outer) - Len(inner)) :
        \A k \in 1..Len(inner) : outer[i + k] = inner[k]

NoError == <<>>

StoreErrorMsg == Msg("MongoNetworkError: connection lost")
StoreErrorMsg2 == Msg("MongoNetworkError: connection lost (failure write)")
ConnectErrorMsg == Msg("MongoDB connection failed")
ApiErrorMsg == Msg("[GoogleGenerativeAI Error]: 429 Too Many Requests")
ParseErrorMsg == Msg("Unexpected token in JSON")
MissingKeyMsg == Msg("GEMINI_API_KEY is missing")
NotFoundMsg(d) == <<"Document with ID ", d, " not found">>

\* ------------------------------------------------------ extraction data
\* Objects the model's JSON answer parses to.  Nothing validates them
\* against the zod schemas, so optional keys may be absent.
DocResults ==
    { [documentType |-> "Invoice", invoiceNumber |-> "123",
       invoiceDate |-> "2024-01-15", totalAmount |-> 500, currency |-> "USD"],
      [documentType |-> "Receipt", totalAmount |-> 20, currency |-> "EUR"] }

AudioResults ==
    { [sentiment |-> "Positive", speakers |-> <<"Speaker 1">>,
       topics |-> <<"budget">>, transcript |-> "hello"],
      [sentiment |-> "Neutral", speakers |-> <<"Speaker 1", "Speaker 2">>,
       topics |-> <<"tax">>] }

DocumentKeys == {"documentType", "invoiceNumber", "invoiceDate", "dueDate",
                 "vendorName", "vendorAddress", "clientName", "clientAddress",
                 "subtotal", "taxAmount", "totalAmount", "currency", "lineItems"}
AudioKeys == {"transcript", "sentiment", "speakers", "topics"}

NoData == [none |-> TRUE]

\* what awaiting model.generateContent and parsing its text can produce
Answers(results) ==
    {[ok |-> TRUE, data |-> r] : r \in results}
    \cup {[ok |-> FALSE, error |-> m] : m \in {ApiErrorMsg, ParseErrorMsg}}

VARIABLES
    store,        \* FinancialDocument collection: existing _id -> document
    apiKey,       \* process.env.GEMINI_API_KEY is set
    jobs,         \* per job execution: event data, position, step results
    clock,        \* value of the next new Date()
    runs,         \* events delivered plus steps re-executed so far
    hist,         \* per job: what the execution has done so far
    rhist,        \* per record id: what has happened to the record
    client,       \* one model response on its way through the strip and parse
    dispatcher,   \* the job dispatcher: per kind, the events in arrival order
    review,       \* the FinancialReview component and its poll requests
    dashboard,    \* the DashboardPage component and its fetches
    upload        \* the FileUpload component and its upload requests

vars == <<store, apiKey, jobs, clock, runs, hist, rhist, client, dispatcher,
          review, dashboard, upload>>

\* the state of the processing pipeline, and the state outside it
pipeline == <<store, apiKey, jobs, clock, runs, hist, rhist>>
ui == <<review, dashboard, upload>>
aux == <<client, dispatcher, ui>>


\* ----------------------------------------------------------- the store
\* The document the upload endpoint creates before it emits the event.
NewRecord(kind) == [status |-> "PROCESSING", mediaKind |-> kind]

\* (variant: the call made with {upsert: true})
FindByIdAndUpdateUpsert(st, id, upd) ==
    [i \in (DOMAIN st) \cup {id} |->
        [k \in (IF i \in DOMAIN st THEN DOMAIN st[i] ELSE {})
                \cup (IF i = id THEN DOMAIN upd ELSE {}) |->
            IF i = id /\ k \in DOMAIN upd THEN upd[k] ELSE st[i][k]]]

\* (variant: the filter does not select by _id, as with updateMany({}, ..))
FindByIdAndUpdateAll(st, id, upd) ==
    IF id \in DOMAIN st
    THEN [i \in DOMAIN st |->
            [k \in (DOMAIN st[i]) \cup (DOMAIN upd) |->
                IF k \in DOMAIN upd THEN upd[k] ELSE st[i][k]]]
    ELSE st

\* (variant: the filter is empty, as with findOneAndUpdate({}, ..): the
\* first document of the collection is updated)
FindByIdAndUpdateFirst(st, id, upd) ==
    IF id \in DOMAIN st
    THEN LET first == CHOOSE i \in DOMAIN st : TRUE IN
         [st EXCEPT ![first] =
            [k \in (DOMAIN st[first]) \cup (DOMAIN upd) |->
                IF k \in DOMAIN upd THEN upd[k] ELSE st[first][k]]]
    ELSE st

\* (variant: the stored document is spread over the update, so a key that
\* is already stored keeps its value)
FindByIdAndUpdateKeepExisting(st, id, upd) ==
    IF id \in DOMAIN st
    THEN [st EXCEPT ![id] =
            [k \in (DOMAIN st[id]) \cup (DOMAIN upd) |->
                IF k \in DOMAIN st[id] THEN st[id][k] ELSE upd[k]]]
    ELSE st

\* Model.findByIdAndUpdate(id, update): $set of the given keys on the
\* document with that _id; no upsert, so a missing _id changes nothing.
FindByIdAndUpdate(st, id, upd) ==
    IF id \in DOMAIN st
    THEN [st EXCEPT ![id] =
            [k \in (DOMAIN st[id]) \cup (DOMAIN upd) |->
                IF k \in DOMAIN upd THEN upd[k] ELSE st[id][k]]]
    ELSE st

\* new Date(isoString)
ToDate(s) == <<"Date", s>>

\* (variant: the update object lacks the currency line)
DocSuccessUpdateNoCurrency(extractedData, now) ==
    [k \in {"status", "processedAt"}
           \cup {f \in (DocumentKeys \ {"currency"}) \cap DOMAIN extractedData :
                    f \in {"invoiceDate", "dueDate"} => extractedData[f] # ""} |->
        CASE k = "status" -> "COMPLETED"
          [] k = "processedAt" -> now
          [] k \in {"invoiceDate", "dueDate"} -> ToDate(extractedData[k])
          [] OTHER -> extractedData[k]]

\* the update object of the document job's success write; a key whose
\* value is undefined is not sent to the store
DocSuccessUpdate(extractedData, now) ==
    [k \in {"status", "processedAt"}
           \cup {f \in DocumentKeys \cap DOMAIN extractedData :
                    f \in {"invoiceDate", "dueDate"} => extractedData[f] # ""} |->
        CASE k = "status" -> "COMPLETED"
          [] k = "processedAt" -> now
          [] k \in {"invoiceDate", "dueDate"} -> ToDate(extractedData[k])
          [] OTHER -> extractedData[k]]

\* (variant: the audio job also tags the record with a documentType)
AudioSuccessUpdateTagged(analysisData, now) ==
    [k \in {"status", "processedAt", "transcript", "documentType"}
           \cup ({"sentiment", "speakers", "topics"} \cap DOMAIN analysisData) |->
        CASE k = "status" -> "COMPLETED"
          [] k = "processedAt" -> now
          [] k = "documentType" -> "Audio"
          [] k = "transcript" ->
                IF "transcript" \in DOMAIN analysisData /\ analysisData.transcript # ""
                THEN analysisData.transcript
                ELSE "Transcript not available"
          [] OTHER -> analysisData[k]]

\* the update object of the audio job's success write
AudioSuccessUpdate(analysisData, now) ==
    [k \in {"status", "processedAt", "transcript"}
           \cup ({"sentiment", "speakers", "topics"} \cap DOMAIN analysisData) |->
        CASE k = "status" -> "COMPLETED"
          [] k = "processedAt" -> now
          [] k = "transcript" ->
                IF "transcript" \in DOMAIN analysisData /\ analysisData.transcript # ""
                THEN analysisData.transcript
                ELSE "Transcript not available"
          [] OTHER -> analysisData[k]]

SuccessUpdate(kind, data, now) ==
    IF kind = "document" THEN DocSuccessUpdate(data, now)
    ELSE AudioSuccessUpdate(data, now)

\* (variant: the message of the caught error is not used)
FailureUpdateUnknown(errorMessage, now) ==
    [status |-> "FAILED", processingError |-> Msg("Unknown error"),
     processedAt |-> now]

\* (variant: the catch block puts the record back in the queue)
FailureUpdateRequeue(errorMessage, now) ==
    [status |-> "PROCESSING", processingError |-> errorMessage, processedAt |-> now]

\* the update object of the failure write in the catch block
FailureUpdate(errorMessage, now) ==
    [status |-> "FAILED", processingError |-> errorMessage, processedAt |-> now]

\* ------------------------------------------------------------ the steps
FileContentOf(path) == "Invoice #123, Total: $500"

\* (variant: a missing file is read as empty text)
ReadFileStepLenient(path, exists) ==
    [ok |-> TRUE, value |-> IF exists THEN FileContentOf(path) ELSE ""]

\* body of step 'read-file'
ReadFileStep(path, exists) ==
    IF ~exists
    THEN [ok |-> FALSE,
          error |-> Wrap("Failed to read uploaded file: ",
                         <<"File not found at path: ", path>>)]
    ELSE [ok |-> TRUE, value |-> FileContentOf(path)]

\* existence check at the head of step 'analyze-audio-gemini'
AudioFileCheck(path, exists) ==
    IF ~exists
    THEN [ok |-> FALSE,
          error |-> Wrap("Failed to analyze audio with Gemini: ",
                         <<"Audio file not found at path: ", path>>)]
    ELSE [ok |-> TRUE]

\* (variant: the helper throws a fixed message)
ExtractFinancialDataErrorGeneric(inner) ==
    Msg("Failed to extract financial data from document")

\* what extractFinancialData / analyzeAudio throw for an underlying error
ExtractFinancialDataError(inner) ==
    Wrap("Failed to extract financial data from document: ", inner)
AnalyzeAudioError(inner) ==
    Wrap("Failed to analyze audio with Gemini: ", inner)

\* what the steps throw for an error of the extraction helper
ExtractStepError(helperError) == Wrap("AI Extraction Failed: ", helperError)
AnalyzeStepError(helperError) ==
    Wrap("Failed to analyze audio with Gemini: ", helperError)

\* the object analyzeAudio returns: the four keys picked from the parsed data
PickAudio(data) == [k \in AudioKeys \cap DOMAIN data |-> data[k]]

\* the first step.run of each handler
FirstStep(kind) ==
    IF kind = "document" THEN "read-file" ELSE "analyze-audio-gemini"

\* (variant: the database update does not wait for the extraction)
StepAfterSkipExtract(step) == "update-database"

\* the step.run the handler awaits after `step` has returned
StepAfter(step) ==
    IF step = "read-file" THEN "extract-data-with-ai" ELSE "update-database"

\* (variant: the catch block ends without `throw error`)
CatchSwallow(caught) == [pc |-> "returned", error |-> NoError]

\* end of the catch block of 'update-database': `throw error`
CatchRethrow(caught) == [pc |-> "raised", error |-> caught]

\* ------------------------------------------------------------- job state
IdleJob ==
    [pc |-> "idle", kind |-> "document", documentId |-> "d1",
     filePath |-> FilePathOf["d1"], fileContent |-> "", extractedData |-> NoData,
     caught |-> NoError, error |-> NoError, failedStep |-> "none"]

NoHist ==
    [extractInvoked |-> 0, modelCalls |-> 0, successApplied |-> 0,
     failureApplied |-> 0, failureWriteErrored |-> FALSE,
     extractionError |-> NoError, sourceMissing |-> FALSE, wroteAt |-> 0,
     alone |-> << >>]

\* no response is being parsed; no event is with the dispatcher
NoClient == [phase |-> "none"]
NoDispatcher == [events |-> [k \in Kinds |-> <<>>]]

\* no component is mounted
NoReview == [mounted |-> FALSE]
NoDashboard == [mounted |-> FALSE]
NoUpload == [mounted |-> FALSE]
UiIdle ==
    /\ review = NoReview
    /\ dashboard = NoDashboard
    /\ upload = NoUpload

Init ==
    /\ \E existing \in SUBSET Ids :
         store = [d \in existing |-> NewRecord(MediaKindOf[d])]
    /\ apiKey \in BOOLEAN
    /\ jobs = [j \in Jobs |-> IdleJob]
    /\ clock = 1
    /\ runs = 0
    /\ hist = [j \in Jobs |-> NoHist]
    /\ rhist = [d \in Ids |-> [everTerminal |-> FALSE, processedAtWrites |-> 0]]
    /\ client = NoClient
    /\ dispatcher = NoDispatcher
    /\ UiIdle

\* (variant: the failure write has a try of its own and the original error
\* is thrown after it)
DoubleFaultKeepOriginal(caught, writeError) == caught

\* the error that leaves the catch block when the failure write rejects:
\* the await is in no try, so it is the write's own error
DoubleFault(caught, writeError) == writeError

\* a step attempt of job j throws msg: the error goes to the framework
Raise(j, step, msg) ==
    /\ jobs' = [jobs EXCEPT ![j].pc = "raised", ![j].error = msg,
                            ![j].failedStep = step]

\* record history after a store write that left the collection as st
Written(st, d, applied) ==
    IF applied /\ d \in DOMAIN st
    THEN [rhist EXCEPT ![d].everTerminal = @ \/ st[d].status \in Terminal,
                       ![d].processedAtWrites = @ + 1]
    ELSE rhist

\* The upload endpoint emits the event of the upload's own media kind.
EventMatchesUpload(kind, d) == kind = MediaKindOf[d]

\* The dispatcher starts a job for an event {documentId, filePath}.
DeliverEvent(j, kind, d) ==
    /\ UNCHANGED aux
    /\ jobs[j].pc = "idle"
    /\ \A i \in Jobs : i < j => jobs[i].pc # "idle"
    /\ EventMatchesUpload(kind, d)
    /\ runs < MaxRuns
    /\ runs' = runs + 1
    /\ jobs' = [jobs EXCEPT ![j] =
                  [IdleJob EXCEPT !.kind = kind, !.documentId = d,
                                  !.filePath = FilePathOf[d],
                                  !.pc = FirstStep(kind)]]
    /\ hist' = [hist EXCEPT ![j].alone =
                  [i \in {d} \cap DOMAIN store |-> store[i]]]
    /\ UNCHANGED <<store, apiKey, clock, rhist>>

\* step 'read-file' of processFinancialDocument
ReadFile(j, exists) ==
    /\ UNCHANGED aux
    /\ jobs[j].pc = "read-file"
    /\ LET r == ReadFileStep(jobs[j].filePath, exists) IN
         IF r.ok
         THEN /\ jobs' = [jobs EXCEPT ![j].fileContent = r.value,
                                      ![j].pc = StepAfter("read-file")]
         ELSE Raise(j, "read-file", r.error)
    /\ hist' = [hist EXCEPT ![j].sourceMissing = ~exists]
    /\ UNCHANGED <<store, apiKey, clock, runs, rhist>>

\* step 'extract-data-with-ai' up to the await of model.generateContent
ExtractStart(j) ==
    /\ UNCHANGED aux
    /\ jobs[j].pc = "extract-data-with-ai"
    /\ IF ~apiKey
       THEN /\ Raise(j, "extract-data-with-ai",
                     ExtractStepError(ExtractFinancialDataError(MissingKeyMsg)))
            /\ hist' = [hist EXCEPT ![j].extractInvoked = @ + 1,
                          ![j].extractionError = ExtractFinancialDataError(MissingKeyMsg)]
       ELSE /\ jobs' = [jobs EXCEPT ![j].pc = "extract-await"]
            /\ hist' = [hist EXCEPT ![j].extractInvoked = @ + 1,
                                    ![j].modelCalls = @ + 1]
    /\ UNCHANGED <<store, apiKey, clock, runs, rhist>>

\* the model answers: a JSON object, an API error, or text that is not JSON
ExtractFinish(j, outcome) ==
    /\ UNCHANGED aux
    /\ jobs[j].pc = "extract-await"
    /\ \/ /\ outcome.ok
          /\ jobs' = [jobs EXCEPT ![j].extractedData = outcome.data,
                                  ![j].pc = StepAfter("extract-data-with-ai")]
          /\ hist' = [hist EXCEPT ![j].extractionError = NoError]
       \/ /\ ~outcome.ok
          /\ Raise(j, "extract-data-with-ai",
                   ExtractStepError(ExtractFinancialDataError(outcome.error)))
          /\ hist' = [hist EXCEPT
                        ![j].extractionError = ExtractFinancialDataError(outcome.error)]
    /\ UNCHANGED <<store, apiKey, clock, runs, rhist>>

\* step 'analyze-audio-gemini' up to the await of model.generateContent:
\* existsSync, analyzeAudio's credential check and readFileSync run in one
\* synchronous stretch
AnalyzeStart(j, exists) ==
    /\ UNCHANGED aux
    /\ jobs[j].pc = "analyze-audio-gemini"
    /\ LET c == AudioFileCheck(jobs[j].filePath, exists) IN
         IF ~c.ok
         THEN /\ Raise(j, "analyze-audio-gemini", c.error)
              /\ hist' = [hist EXCEPT ![j].sourceMissing = ~exists]
         ELSE IF ~apiKey
         THEN /\ Raise(j, "analyze-audio-gemini",
                       AnalyzeStepError(AnalyzeAudioError(MissingKeyMsg)))
              /\ hist' = [hist EXCEPT ![j].extractInvoked = @ + 1,
                            ![j].sourceMissing = ~exists,
                            ![j].extractionError = AnalyzeAudioError(MissingKeyMsg)]
         ELSE /\ jobs' = [jobs EXCEPT ![j].pc = "analyze-await"]
              /\ hist' = [hist EXCEPT ![j].extractInvoked = @ + 1,
                                      ![j].sourceMissing = ~exists,
                                      ![j].modelCalls = @ + 1]
    /\ UNCHANGED <<store, apiKey, clock, runs, rhist>>

AnalyzeFinish(j, outcome) ==
    /\ UNCHANGED aux
    /\ jobs[j].pc = "analyze-await"
    /\ \/ /\ outcome.ok
          /\ jobs' = [jobs EXCEPT ![j].extractedData = PickAudio(outcome.data),
                                  ![j].pc = StepAfter("analyze-audio-gemini")]
          /\ hist' = [hist EXCEPT ![j].extractionError = NoError]
       \/ /\ ~outcome.ok
          /\ Raise(j, "analyze-audio-gemini",
                   AnalyzeStepError(AnalyzeAudioError(outcome.error)))
          /\ hist' = [hist EXCEPT
                        ![j].extractionError = AnalyzeAudioError(outcome.error)]
    /\ UNCHANGED <<store, apiKey, clock, runs, rhist>>


\* step 'update-database' up to the answer of the success write:
\* connectToDatabase (outside the try), then findByIdAndUpdate(COMPLETED..)
UpdateDatabase(j, outcome) ==
    /\ UNCHANGED aux
    /\ jobs[j].pc = "update-database"
    /\ LET d == jobs[j].documentId IN
       \/ /\ outcome = "connect-error"
          /\ Raise(j, "update-database", ConnectErrorMsg)
          /\ UNCHANGED <<store, clock, hist, rhist>>
       \/ /\ outcome = "store-error"
          /\ jobs' = [jobs EXCEPT ![j].pc = "update-database-catch",
                                  ![j].caught = StoreErrorMsg]
          /\ UNCHANGED <<store, clock, hist, rhist>>
       \/ /\ outcome = "answered"
          /\ store' = FindByIdAndUpdate(store, d,
                         SuccessUpdate(jobs[j].kind, jobs[j].extractedData, clock))
          /\ clock' = clock + 1
          /\ rhist' = Written(store', d, TRUE)
          /\ IF d \in DOMAIN store
             THEN /\ jobs' = [jobs EXCEPT ![j].pc = "returned"]
                  /\ hist' = [hist EXCEPT
                        ![j].successApplied = @ + 1,
                        ![j].wroteAt = clock,
                        ![j].alone = FindByIdAndUpdate(@, d,
                            SuccessUpdate(jobs[j].kind, jobs[j].extractedData,
                                          clock))]
             ELSE /\ jobs' = [jobs EXCEPT ![j].pc = "update-database-catch",
                                          ![j].caught = NotFoundMsg(d)]
                  /\ hist' = hist
    /\ UNCHANGED <<apiKey, runs>>

\* the catch block of 'update-database': findByIdAndUpdate(FAILED..), throw
FailureWrite(j, outcome) ==
    /\ UNCHANGED aux
    /\ jobs[j].pc = "update-database-catch"
    /\ LET d == jobs[j].documentId IN
       \/ /\ outcome = "store-error"
          /\ Raise(j, "update-database",
                   DoubleFault(jobs[j].caught, StoreErrorMsg2))
          /\ hist' = [hist EXCEPT ![j].failureWriteErrored = TRUE]
          /\ UNCHANGED <<store, clock, rhist>>
       \/ /\ outcome = "answered"
          /\ store' = FindByIdAndUpdate(store, d,
                                        FailureUpdate(jobs[j].caught, clock))
          /\ clock' = clock + 1
          /\ rhist' = Written(store', d, TRUE)
          /\ LET t == CatchRethrow(jobs[j].caught) IN
               jobs' = [jobs EXCEPT ![j].pc = t.pc, ![j].error = t.error,
                                    ![j].failedStep = "update-database"]
          /\ hist' = IF d \in DOMAIN store
                     THEN [hist EXCEPT
                             ![j].failureApplied = @ + 1,
                             ![j].wroteAt = clock,
                             ![j].alone = FindByIdAndUpdate(@, d,
                                 FailureUpdate(jobs[j].caught, clock))]
                     ELSE hist
    /\ UNCHANGED <<apiKey, runs>>

\* the framework runs a step that raised once more (earlier steps' results
\* are memoized and not re-run)
FrameworkRetry(j) ==
    /\ UNCHANGED aux
    /\ jobs[j].pc = "raised"
    /\ runs < MaxRuns
    /\ runs' = runs + 1
    /\ jobs' = [jobs EXCEPT ![j].pc = jobs[j].failedStep,
                            ![j].caught = NoError]
    /\ UNCHANGED <<store, apiKey, clock, hist, rhist>>

\* the framework gives up: the job execution has failed
FrameworkFail(j) ==
    /\ UNCHANGED aux
    /\ jobs[j].pc = "raised"
    /\ jobs' = [jobs EXCEPT ![j].pc = "failed"]
    /\ UNCHANGED <<store, apiKey, clock, runs, hist, rhist>>

Next ==
    \/ \E j \in Jobs, k \in Kinds, d \in Ids : DeliverEvent(j, k, d)
    \/ \E j \in Jobs, exists \in BOOLEAN : ReadFile(j, exists)
    \/ \E j \in Jobs : ExtractStart(j)
    \/ \E j \in Jobs, o \in Answers(DocResults) : ExtractFinish(j, o)
    \/ \E j \in Jobs, exists \in BOOLEAN : AnalyzeStart(j, exists)
    \/ \E j \in Jobs, o \in Answers(AudioResults) : AnalyzeFinish(j, o)
    \/ \E j \in Jobs, o \in {"connect-error", "store-error", "answered"} :
          UpdateDatabase(j, o)
    \/ \E j \in Jobs, o \in {"store-error", "answered"} : FailureWrite(j, o)
    \/ \E j \in Jobs : FrameworkRetry(j)
    \/ \E j \in Jobs : FrameworkFail(j)

Spec == Init /\ [][Next]_vars


\* ------------------------------------------- the extraction client's parse
\* Texts are sequences of characters, each a one-character string; the
\* backquote (U+0060) is written by name.

\* longest string value inside a generated JSON text
MaxLen == 3

Backquote == "backquote"
Backticks == <<Backquote, Backquote, Backquote>>
Whitespace == {" ", "\n"}

\* does text t start with pattern p
StartsWith(t, p) == Len(t) >= Len(p) /\ SubSeq(t, 1, Len(p)) = p

\* String.prototype.replace(/p1|p2|../g, "") removes every match, left to
\* right; pats is the alternation in its order
RECURSIVE ReplaceAll(_, _)
ReplaceAll(t, pats) ==
    IF t = <<>> THEN <<>>
    ELSE LET hits == {i \in 1..Len(pats) : StartsWith(t, pats[i])} IN
         IF hits # {}
         THEN LET first == CHOOSE i \in hits : \A h \in hits : i <= h
              IN ReplaceAll(SubSeq(t, Len(pats[first]) + 1, Len(t)), pats)
         ELSE <<Head(t)>> \o ReplaceAll(Tail(t), pats)

RECURSIVE TrimStart(_)
TrimStart(t) ==
    IF t # <<>> /\ Head(t) \in Whitespace THEN TrimStart(Tail(t)) ELSE t

RECURSIVE TrimEnd(_)
TrimEnd(t) ==
    IF t # <<>> /\ t[Len(t)] \in Whitespace
    THEN TrimEnd(SubSeq(t, 1, Len(t) - 1)) ELSE t

\* String.prototype.trim()
Trim(t) == TrimEnd(TrimStart(t))

\* the two global replaces (fence with language tag or closing fence on its
\* own line, then any three backquotes) and the trim of the response text
StripFences(responseText) ==
    Trim(ReplaceAll(
            ReplaceAll(responseText,
                       << Backticks \o <<"j", "s", "o", "n", "\n">>,
                          <<"\n">> \o Backticks >>),
            << Backticks >>))

\* JSON.parse on the texts that occur here: a string is "str" with its
\* characters, an object with one member is "obj" with the key's characters
\* and the member's value; anything else is a SyntaxError
SyntaxError == <<"SyntaxError">>
NoParse == [ok |-> FALSE]

\* a string literal at the head of t: characters up to the closing quote;
\* a raw line break inside it is not allowed
RECURSIVE ScanString(_, _)
ScanString(t, acc) ==
    IF t = <<>> \/ Head(t) = "\n" THEN NoParse
    ELSE IF Head(t) = "\"" THEN [ok |-> TRUE, val |-> acc, rest |-> Tail(t)]
    ELSE ScanString(Tail(t), acc \o <<Head(t)>>)

ParseString(t) ==
    IF t # <<>> /\ Head(t) = "\"" THEN ScanString(Tail(t), <<>>) ELSE NoParse

RECURSIVE ParseValue(_)
ParseValue(text) ==
    LET t == TrimStart(text) IN
    IF t = <<>> THEN NoParse
    ELSE IF Head(t) = "\""
    THEN LET str == ParseString(t) IN
         IF str.ok
         THEN [ok |-> TRUE, val |-> <<"str", str.val>>, rest |-> str.rest]
         ELSE NoParse
    ELSE IF Head(t) = "{"
    THEN LET key == ParseString(TrimStart(Tail(t))) IN
         IF ~key.ok THEN NoParse
         ELSE LET colon == TrimStart(key.rest) IN
              IF colon = <<>> \/ Head(colon) # ":" THEN NoParse
              ELSE LET member == ParseValue(Tail(colon)) IN
                   IF ~member.ok THEN NoParse
                   ELSE LET close == TrimStart(member.rest) IN
                        IF close = <<>> \/ Head(close) # "}" THEN NoParse
                        ELSE [ok |-> TRUE,
                              val |-> <<"obj", key.val, member.val>>,
                              rest |-> Tail(close)]
    ELSE NoParse

ParseJson(text) ==
    LET r == ParseValue(text) IN
    IF r.ok /\ TrimStart(r.rest) = <<>> THEN r.val ELSE SyntaxError

\* the JSON texts a response may carry: an object with one string member
\* whose value is any text of up to MaxLen characters, laid out with or
\* without line breaks and outer whitespace
StringChars == {Backquote, "a"}
Strings == UNION {[1..n -> StringChars] : n \in 0..MaxLen}
Layouts == {<<>>, <<" ">>, <<"\n">>}
JsonTexts ==
    {outer \o <<"{">> \o inner \o <<"\"", "k", "\"", ":", "\"">> \o str
        \o <<"\"">> \o inner \o <<"}">> \o outer :
        outer \in Layouts, inner \in {<<>>, <<"\n">>}, str \in Strings}

\* how the model wraps the JSON text J in its response
Wrappings == {"unfenced", "json-fence", "plain-fence", "plain-fence-lines"}
ResponseText(wrapping, J) ==
    CASE wrapping = "unfenced" -> J
      [] wrapping = "json-fence" ->
            Backticks \o <<"j", "s", "o", "n", "\n">> \o J \o <<"\n">> \o Backticks
      [] wrapping = "plain-fence" -> Backticks \o J \o Backticks
      [] wrapping = "plain-fence-lines" ->
            Backticks \o <<"\n">> \o J \o <<"\n">> \o Backticks

\* the pipeline at rest
PipelineIdle ==
    /\ store = << >>
    /\ apiKey = TRUE
    /\ jobs = [j \in Jobs |-> IdleJob]
    /\ clock = 1
    /\ runs = 0
    /\ hist = [j \in Jobs |-> NoHist]
    /\ rhist = [d \in Ids |-> [everTerminal |-> FALSE, processedAtWrites |-> 0]]

\* generateContent has answered: result.response.text()
ClientInit ==
    /\ PipelineIdle
    /\ dispatcher = NoDispatcher
    /\ UiIdle
    /\ \E J \in JsonTexts, w \in Wrappings :
          client = [phase |-> "responded", json |-> J, wrapping |-> w,
                    responseText |-> ResponseText(w, J),
                    jsonString |-> <<>>, data |-> SyntaxError]

\* const jsonString = responseText.replace(..).replace(..).trim()
Strip ==
    /\ client.phase = "responded"
    /\ client' = [client EXCEPT !.phase = "stripped",
                                !.jsonString = StripFences(client.responseText)]
    /\ UNCHANGED <<pipeline, dispatcher, ui>>

\* const data = JSON.parse(jsonString)
Parse ==
    /\ client.phase = "stripped"
    /\ client' = [client EXCEPT !.phase = "parsed",
                                !.data = ParseJson(client.jsonString)]
    /\ UNCHANGED <<pipeline, dispatcher, ui>>

ClientNext ==
    \/ Strip
    \/ Parse

SpecClient == ClientInit /\ [][ClientNext]_vars


\* ------------------------------------------------------- the job dispatcher
\* Each function declares throttle {limit, period}: at most `limit` of its
\* runs are started per `period`, and a run that cannot start yet waits in
\* the function's queue.  Time is in seconds.

DocThrottleLimit == 5
AudioThrottleLimit == 2
ThrottlePeriod == 60

\* events of a kind sent beyond its ceiling
MaxBacklog == 1

\* granularity of the passage of time
TickSeconds == ThrottlePeriod \div 2

\* (variant: the audio function's throttle is a copy of the document one)
ThrottleLimitOfCopied(kind) == DocThrottleLimit

\* throttle.limit of the function of this kind
ThrottleLimitOf(kind) ==
    IF kind = "document" THEN DocThrottleLimit ELSE AudioThrottleLimit

MaxEventsOf(kind) == ThrottleLimitOf(kind) + MaxBacklog

\* an event as it arrives; starts counts the runs started for it, age is
\* the time since its run started, waited tells that it arrived at the ceiling
NewEvent == [state |-> "queued", starts |-> 0, age |-> 0, waited |-> FALSE]

\* the runs of these events started less than one period ago
InWindow(evs) ==
    Cardinality({i \in 1..Len(evs) :
                    evs[i].state = "started" /\ evs[i].age < ThrottlePeriod})

Queued(evs) == {i \in 1..Len(evs) : evs[i].state = "queued"}

\* (variant: the function declares rateLimit, which skips the event)
OverCapacityRateLimit(e) == [e EXCEPT !.state = "dropped", !.waited = TRUE]

\* an event that arrives at the ceiling: throttle keeps it in the queue
OverCapacity(e) == [e EXCEPT !.state = "queued", !.waited = TRUE]

DispatchInit ==
    /\ PipelineIdle
    /\ client = NoClient
    /\ dispatcher = NoDispatcher
    /\ UiIdle

\* the upload endpoint sends an event of this kind
SendEvent(kind) ==
    LET evs == dispatcher.events[kind] IN
    /\ Len(evs) < MaxEventsOf(kind)
    /\ dispatcher' =
          [dispatcher EXCEPT !.events[kind] =
              Append(evs, IF InWindow(evs) < ThrottleLimitOf(kind)
                          THEN NewEvent ELSE OverCapacity(NewEvent))]
    /\ UNCHANGED <<pipeline, client, ui>>

\* the dispatcher starts the run of the oldest waiting event of this kind
StartJob(kind) ==
    LET evs == dispatcher.events[kind] IN
    /\ Queued(evs) # {}
    /\ InWindow(evs) < ThrottleLimitOf(kind)
    /\ LET i == CHOOSE q \in Queued(evs) : \A o \in Queued(evs) : q <= o IN
         dispatcher' =
            [dispatcher EXCEPT !.events[kind][i] =
                [evs[i] EXCEPT !.state = "started", !.starts = evs[i].starts + 1,
                               !.age = 0]]
    /\ UNCHANGED <<pipeline, client, ui>>

\* time passes
Tick ==
    /\ \E kind \in Kinds : InWindow(dispatcher.events[kind]) > 0
    /\ dispatcher' =
          [dispatcher EXCEPT !.events =
              [kind \in Kinds |->
                  [i \in 1..Len(dispatcher.events[kind]) |->
                      LET e == dispatcher.events[kind][i] IN
                      IF e.state = "started" /\ e.age < ThrottlePeriod
                      THEN [e EXCEPT !.age = e.age + TickSeconds]
                      ELSE e]]]
    /\ UNCHANGED <<pipeline, client, ui>>

DispatchNext ==
    \/ \E kind \in Kinds : SendEvent(kind)
    \/ \E kind \in Kinds : StartJob(kind)
    \/ Tick

SpecDispatch == DispatchInit /\ [][DispatchNext]_vars

\* the dispatcher keeps working: time passes and a run that may start does
SpecDispatchFair ==
    /\ SpecDispatch
    /\ WF_vars(Tick)
    /\ \A kind \in Kinds : WF_vars(StartJob(kind))


\* --------------------------------------------------- the review view
\* FinancialReview shows one record and polls it while it is PROCESSING.
\* A committed render and the effects it triggers are one step.

Statuses == {"PROCESSING"} \cup Terminal

\* poll requests issued by one mounted view
MaxPolls == 3

\* setInterval(.., 3000)
PollIntervalMs == 3000

\* the polling effect with dependency data.status: the interval it leaves
\* set (0: none) after its cleanup and re-run
PollEffect(status) == IF status # "PROCESSING" THEN 0 ELSE PollIntervalMs

\* what a poll request can bring back: the record as stored, a body without
\* documents[0], or a rejected fetch / json()
PollResults(server) == {server, "no-document", "rejected"}

\* the view is mounted with initialData
ReviewInit ==
    /\ PipelineIdle
    /\ client = NoClient
    /\ dispatcher = NoDispatcher
    /\ dashboard = NoDashboard
    /\ upload = NoUpload
    /\ \E initial \in Statuses :
          review = [mounted |-> TRUE, status |-> initial,
                    timer |-> PollEffect(initial), isRefreshing |-> FALSE,
                    requests |-> <<>>, server |-> initial,
                    shownTerminal |-> FALSE]

\* the interval fires: setIsRefreshing(true); fetch(`/api/documents?_id=..`)
PollTick ==
    /\ review.mounted
    /\ review.timer # 0
    /\ Len(review.requests) < MaxPolls
    /\ review' = [review EXCEPT
                    !.isRefreshing = TRUE,
                    !.requests = Append(@, [state |-> "sent", result |-> "none"])]
    /\ UNCHANGED <<pipeline, client, dispatcher, dashboard, upload>>

\* the server answers request i from the record as it is now
PollAnswered(i, result) ==
    /\ i \in 1..Len(review.requests)
    /\ review.requests[i].state = "sent"
    /\ result \in PollResults(review.server)
    /\ review' = [review EXCEPT !.requests[i] =
                    [state |-> "answered", result |-> result]]
    /\ UNCHANGED <<pipeline, client, dispatcher, dashboard, upload>>

\* the callback of request i resumes after its awaits: setData(documents[0])
\* when there is one, then finally setIsRefreshing(false); on an unmounted
\* view the state setters do nothing
PollSettled(i) ==
    /\ i \in 1..Len(review.requests)
    /\ review.requests[i].state = "answered"
    /\ LET result == review.requests[i].result
           shown == IF review.mounted /\ result \in Statuses
                    THEN result ELSE review.status
       IN review' = [review EXCEPT
                       !.requests[i].state = "settled",
                       !.status = shown,
                       !.shownTerminal =
                           @ \/ (review.mounted /\ result \in Terminal),
                       !.timer = IF review.mounted THEN PollEffect(shown) ELSE 0,
                       !.isRefreshing = IF review.mounted THEN FALSE ELSE @]
    /\ UNCHANGED <<pipeline, client, dispatcher, dashboard, upload>>

\* a processing job writes the record: PROCESSING becomes COMPLETED or
\* FAILED, and a later write may replace one terminal status by the other
RecordWritten(status) ==
    /\ status \in Terminal
    /\ status # review.server
    /\ review' = [review EXCEPT !.server = status]
    /\ UNCHANGED <<pipeline, client, dispatcher, dashboard, upload>>

\* the view is unmounted: the effect's cleanup clears the interval
ReviewUnmount ==
    /\ review.mounted
    /\ review' = [review EXCEPT !.mounted = FALSE, !.timer = 0]
    /\ UNCHANGED <<pipeline, client, dispatcher, dashboard, upload>>

ReviewNext ==
    \/ PollTick
    \/ \E i \in 1..MaxPolls, r \in Statuses \cup {"no-document", "rejected"} :
          PollAnswered(i, r)
    \/ \E i \in 1..MaxPolls : PollSettled(i)
    \/ \E st \in Terminal : RecordWritten(st)
    \/ ReviewUnmount

SpecReview == ReviewInit /\ [][ReviewNext]_vars


\* ------------------------------------------------------- the dashboard
\* DashboardPage shows the list fetched for a filter.  A list is known by
\* the filter of the request that brought it and by whether it holds a
\* PROCESSING document.

Filters == {"all"} \cup Statuses

\* fetches issued by one mounted dashboard
MaxFetches == 4

\* setInterval(fetchDocuments, 5000)
DashboardPollMs == 5000

\* useState([]): no list fetched yet
NoDocuments == [source |-> "none", hasProcessing |-> FALSE]

\* const filteredDocuments = documents
FilteredDocuments(documents) == documents

\* what GET /api/documents?status=f answers while the collection does or
\* does not hold a PROCESSING document
ListFor(f, serverProcessing) ==
    [source |-> f,
     hasProcessing |-> serverProcessing /\ f \in {"all", "PROCESSING"}]

\* the polling effect with dependency documents, run in a render whose
\* filter is f: the interval it leaves set (0: none) and the filter that
\* the fetchDocuments of that render reads
DashboardPollEffect(documents, f) ==
    IF ~documents.hasProcessing
    THEN [ms |-> 0, filter |-> "none"]
    ELSE [ms |-> DashboardPollMs, filter |-> f]

\* fetchDocuments of a render whose filter is f: the request is issued
FetchDocuments(requests, f) ==
    Append(requests, [filter |-> f, state |-> "sent"])

\* the page is mounted: filter 'all', and the effect on [filter] fetches
DashboardInit ==
    /\ PipelineIdle
    /\ client = NoClient
    /\ dispatcher = NoDispatcher
    /\ review = NoReview
    /\ upload = NoUpload
    /\ \E serverProcessing \in BOOLEAN :
          dashboard = [mounted |-> TRUE, filter |-> "all",
                       documents |-> NoDocuments, isLoading |-> TRUE,
                       timer |-> DashboardPollEffect(NoDocuments, "all"),
                       requests |-> FetchDocuments(<<>>, "all"),
                       serverProcessing |-> serverProcessing]

\* a filter tab is clicked: setFilter(f); the effect on [filter] fetches
SetFilter(f) ==
    /\ dashboard.mounted
    /\ f # dashboard.filter
    /\ Len(dashboard.requests) < MaxFetches
    /\ dashboard' = [dashboard EXCEPT
                       !.filter = f,
                       !.requests = FetchDocuments(@, f)]
    /\ UNCHANGED <<pipeline, client, dispatcher, review, upload>>

\* the interval fires: the fetchDocuments it was set with runs
DashboardPollTick ==
    /\ dashboard.mounted
    /\ dashboard.timer.ms # 0
    /\ Len(dashboard.requests) < MaxFetches
    /\ dashboard' = [dashboard EXCEPT
                       !.requests = FetchDocuments(@, dashboard.timer.filter)]
    /\ UNCHANGED <<pipeline, client, dispatcher, review, upload>>

\* handleUploadComplete: fetchDocuments of the current render
HandleUploadComplete ==
    /\ dashboard.mounted
    /\ Len(dashboard.requests) < MaxFetches
    /\ dashboard' = [dashboard EXCEPT
                       !.requests = FetchDocuments(@, dashboard.filter)]
    /\ UNCHANGED <<pipeline, client, dispatcher, review, upload>>

\* request i settles: setDocuments(data.documents) if data.success, then
\* finally setIsLoading(false); the effect on [documents] runs again
FetchSettled(i, success) ==
    /\ dashboard.mounted
    /\ i \in 1..Len(dashboard.requests)
    /\ dashboard.requests[i].state = "sent"
    /\ LET shown == IF success
                    THEN ListFor(dashboard.requests[i].filter,
                                 dashboard.serverProcessing)
                    ELSE dashboard.documents
       IN dashboard' = [dashboard EXCEPT
                          !.requests[i].state = "settled",
                          !.documents = shown,
                          !.timer = IF success
                                    THEN DashboardPollEffect(shown, dashboard.filter)
                                    ELSE @,
                          !.isLoading = FALSE]
    /\ UNCHANGED <<pipeline, client, dispatcher, review, upload>>

\* a document is uploaded, or the last PROCESSING document is processed
CollectionChanged ==
    /\ dashboard.mounted
    /\ dashboard' = [dashboard EXCEPT !.serverProcessing = ~@]
    /\ UNCHANGED <<pipeline, client, dispatcher, review, upload>>

DashboardNext ==
    \/ \E f \in Filters : SetFilter(f)
    \/ DashboardPollTick
    \/ HandleUploadComplete
    \/ \E i \in 1..MaxFetches, success \in BOOLEAN : FetchSettled(i, success)
    \/ CollectionChanged

SpecDashboard == DashboardInit /\ [][DashboardNext]_vars


\* ------------------------------------------------------- the upload widget
\* FileUpload posts a file to /api/upload and shows the outcome.

\* upload attempts of one mounted widget
MaxUploads == 2

\* what the POST can bring back: the fetch rejects, or a response arrives
\* that is ok or not, whose body parses as JSON or not, and whose JSON
\* carries a documentId, an error text, or neither
Responses ==
    {[arrived |-> FALSE, ok |-> FALSE, json |-> FALSE,
      documentId |-> FALSE, error |-> FALSE]}
    \cup {[arrived |-> TRUE, ok |-> ok, json |-> FALSE,
           documentId |-> FALSE, error |-> FALSE] : ok \in BOOLEAN}
    \cup {[arrived |-> TRUE, ok |-> ok, json |-> TRUE,
           documentId |-> id, error |-> err] :
             ok \in BOOLEAN, id \in BOOLEAN, err \in BOOLEAN}

\* (variant: the response's ok flag is not looked at)
SettleUploadNoOkCheck(response, hasCallback, errorMessage) ==
    IF ~response.arrived \/ ~response.json
    THEN [uploadStatus |-> "error", errorMessage |-> "Network error occurred",
          calls |-> 0]
    ELSE [uploadStatus |-> "success", errorMessage |-> errorMessage,
          calls |-> IF hasCallback /\ response.documentId THEN 1 ELSE 0]

\* handleFileUpload from the answer of its fetch on: what it sets, and how
\* often it calls onUploadComplete
SettleUpload(response, hasCallback, errorMessage) ==
    IF ~response.arrived \/ ~response.json
    THEN [uploadStatus |-> "error", errorMessage |-> "Network error occurred",
          calls |-> 0]
    ELSE IF response.ok
    THEN [uploadStatus |-> "success", errorMessage |-> errorMessage,
          calls |-> IF hasCallback /\ response.documentId THEN 1 ELSE 0]
    ELSE [uploadStatus |-> "error",
          errorMessage |-> IF response.error THEN "data.error"
                           ELSE "Upload failed",
          calls |-> 0]

\* handleFileUpload up to its fetch: the attempt is on its way
StartUpload(u, via) ==
    [u EXCEPT !.isUploading = TRUE, !.uploadStatus = "idle",
              !.errorMessage = "",
              !.attempts = Append(@, [state |-> "in-flight", via |-> via])]

\* the widget is mounted, with or without the onUploadComplete prop
UploadInit ==
    /\ PipelineIdle
    /\ client = NoClient
    /\ dispatcher = NoDispatcher
    /\ review = NoReview
    /\ dashboard = NoDashboard
    /\ \E hasCallback \in BOOLEAN :
          upload = [mounted |-> TRUE, isDragging |-> FALSE,
                    isUploading |-> FALSE, uploadStatus |-> "idle",
                    errorMessage |-> "", hasCallback |-> hasCallback,
                    attempts |-> <<>>]

\* a file is dragged onto or off the drop zone
HandleDrag(type) ==
    /\ upload.mounted
    /\ upload' = [upload EXCEPT
                    !.isDragging = IF type \in {"dragenter", "dragover"} THEN TRUE
                                   ELSE IF type = "dragleave" THEN FALSE
                                   ELSE @]
    /\ UNCHANGED <<pipeline, client, dispatcher, review, dashboard>>

\* a file is chosen in the file input, which is disabled while isUploading
HandleFileSelect ==
    /\ upload.mounted
    /\ ~upload.isUploading
    /\ Len(upload.attempts) < MaxUploads
    /\ upload' = StartUpload(upload, "input")
    /\ UNCHANGED <<pipeline, client, dispatcher, review, dashboard>>

\* a file is dropped on the drop zone
HandleDrop ==
    /\ upload.mounted
    /\ Len(upload.attempts) < MaxUploads
    /\ upload' = StartUpload([upload EXCEPT !.isDragging = FALSE], "drop")
    /\ UNCHANGED <<pipeline, client, dispatcher, review, dashboard>>

\* the fetch of attempt i is answered and handleFileUpload runs to its end:
\* status and message, onUploadComplete, finally setIsUploading(false)
UploadSettled(i, response) ==
    /\ upload.mounted
    /\ i \in 1..Len(upload.attempts)
    /\ upload.attempts[i].state = "in-flight"
    /\ LET out == SettleUpload(response, upload.hasCallback, upload.errorMessage)
       IN upload' = [upload EXCEPT
                       !.uploadStatus = out.uploadStatus,
                       !.errorMessage = out.errorMessage,
                       !.isUploading = FALSE,
                       !.attempts[i] =
                          [state |-> "settled", via |-> upload.attempts[i].via,
                           response |-> response,
                           uploadStatus |-> out.uploadStatus,
                           calls |-> out.calls]]
    /\ UNCHANGED <<pipeline, client, dispatcher, review, dashboard>>

UploadNext ==
    \/ \E type \in {"dragenter", "dragover", "dragleave"} : HandleDrag(type)
    \/ HandleFileSelect
    \/ HandleDrop
    \/ \E i \in 1..MaxUploads, r \in Responses : UploadSettled(i, r)

SpecUpload == UploadInit /\ [][UploadNext]_vars


\* ------------------------------------------------------------- the claims
JobEnded(j) == jobs[j].pc \in {"returned", "failed"}

HasExtractedFields(r) == (DOMAIN r) \cap (DocumentKeys \cup AudioKeys) # {}

\* C1: when the source file is missing, an execution on a record that is
\* PROCESSING ends with the record persisted as FAILED and processingError
\* containing the missing path.
C1_MissingSourceEndsFailed ==
    \A j \in Jobs :
        LET d == jobs[j].documentId IN
        (/\ jobs[j].pc = "failed"
         /\ hist[j].sourceMissing
         /\ d \in DOMAIN store
         /\ rhist[d].processedAtWrites = 0)
        => /\ store[d].status = "FAILED"
           /\ "processingError" \in DOMAIN store[d]
           /\ IsInfix(<<jobs[j].filePath>>, store[d].processingError)

\* C2: when the extraction capability raises, the execution ends with the
\* record persisted as FAILED and the capability's error message verbatim
\* inside processingError.
C2_ExtractionErrorEndsFailed ==
    \A j \in Jobs :
        LET d == jobs[j].documentId IN
        (/\ jobs[j].pc = "failed"
         /\ hist[j].extractionError # NoError
         /\ d \in DOMAIN store)
        => /\ store[d].status = "FAILED"
           /\ "processingError" \in DOMAIN store[d]
           /\ IsInfix(hist[j].extractionError, store[d].processingError)

\* C3: once a record's status is COMPLETED or FAILED, no later action
\* changes it to a different value.
C3_TerminalIsFinal ==
    [][\A d \in DOMAIN store :
          store[d].status \in Terminal => store'[d].status = store[d].status]_vars

\* C4: processedAt is unset while the status is PROCESSING, set together
\* with the move into COMPLETED or FAILED, and written exactly once over the
\* record's lifetime.
C4_ProcessedAtOnce ==
    \A d \in DOMAIN store :
        /\ ("processedAt" \in DOMAIN store[d]) <=> (store[d].status \in Terminal)
        /\ rhist[d].processedAtWrites <= 1

\* C5: every job execution on an existing record applies exactly one
\* mutation to the store: the success write or the failure write, never both
\* and never neither (unless the failure write itself raised).
C5_ExactlyOneMutation ==
    \A j \in Jobs :
        (/\ JobEnded(j)
         /\ jobs[j].documentId \in DOMAIN store
         /\ ~hist[j].failureWriteErrored)
        => hist[j].successApplied + hist[j].failureApplied = 1

\* C6: a record that has been COMPLETED or FAILED in some earlier state is
\* never in status PROCESSING.
C6_NeverBackToProcessing ==
    \A d \in DOMAIN store :
        rhist[d].everTerminal => store[d].status # "PROCESSING"

\* a terminal record has been written again by a later job action
C6_Witness ==
    \E d \in DOMAIN store :
        rhist[d].processedAtWrites >= 2 /\ store[d].status \in Terminal

\* C7: COMPLETED records carry extracted fields and no processingError,
\* FAILED records carry a processingError message, and processingError is
\* present on no record that is not FAILED.
C7_StatusPayloadConsistent ==
    \A d \in DOMAIN store :
        LET r == store[d] IN
        /\ r.status = "COMPLETED" =>
              HasExtractedFields(r) /\ "processingError" \notin DOMAIN r
        /\ r.status = "FAILED" =>
              "processingError" \in DOMAIN r /\ r.processingError # NoError
        /\ "processingError" \in DOMAIN r => r.status = "FAILED"

\* C8: a job invokes the extraction helper only when the existence check on
\* its source file passed: with the file missing, 'extract-data-with-ai'
\* does not start and analyzeAudio is not invoked.
C8_NoExtractionWhenMissing ==
    [][\A j \in Jobs :
          hist'[j].extractInvoked > hist[j].extractInvoked
          => ~hist'[j].sourceMissing]_vars

\* a document job and an audio job have both failed on a missing file
\* without invoking the extraction helper
C8_Witness ==
    \A k \in Kinds :
        \E j \in Jobs :
            /\ jobs[j].kind = k
            /\ jobs[j].pc = "failed"
            /\ hist[j].sourceMissing
            /\ hist[j].extractInvoked = 0

\* C9: no failure is swallowed: an error caught in 'update-database' is
\* thrown on to the framework, and an execution returns
\* {documentId, status: 'completed'} only if its success write was applied
\* to an existing record.
C9_NoFailureSwallowed ==
    /\ [](\A j \in Jobs :
            jobs[j].pc = "returned"
            => hist[j].successApplied >= 1 /\ jobs[j].documentId \in DOMAIN store)
    /\ [][\A j \in Jobs :
            (jobs[j].pc = "update-database-catch" /\ jobs'[j] # jobs[j])
            => jobs'[j].pc = "raised" /\ jobs'[j].error # NoError]_vars

\* the success write raised, the failure write was applied, and the job
\* ended by raising
C9_Witness ==
    \E j \in Jobs :
        /\ jobs[j].pc = "failed"
        /\ jobs[j].failedStep = "update-database"
        /\ hist[j].failureApplied >= 1

\* C10: when the success write finds no record with the event's documentId,
\* a not-found error is thrown, the step ends by raising (the not-found
\* error, or the failure write's own error) and never returns, and neither
\* write changes the store.
C10_RecordNotFound ==
    [][\A j \in Jobs :
          LET d == jobs[j].documentId IN
          (/\ d \notin DOMAIN store
           /\ jobs[j].pc \in {"update-database", "update-database-catch"}
           /\ jobs'[j] # jobs[j])
          => /\ store' = store
             /\ jobs'[j].pc \in {"update-database-catch", "raised"}
             /\ (jobs[j].pc = "update-database" /\ jobs'[j].pc = "update-database-catch")
                   => jobs'[j].caught \in {NotFoundMsg(d), StoreErrorMsg}
             /\ (jobs[j].pc = "update-database-catch" /\ jobs[j].caught = NotFoundMsg(d))
                   => jobs'[j].error \in {NotFoundMsg(d), StoreErrorMsg2}]_vars

\* a job whose record does not exist has failed with the not-found error
C10_Witness ==
    \E j \in Jobs :
        /\ jobs[j].pc = "failed"
        /\ jobs[j].documentId \notin DOMAIN store
        /\ jobs[j].error = NotFoundMsg(jobs[j].documentId)


\* the job's last applied write is the last write applied to its record
LastWriter(j) ==
    \A m \in Jobs :
        jobs[m].documentId = jobs[j].documentId => hist[m].wroteAt <= hist[j].wroteAt

\* two executions of the same event have both returned
Redelivered(i, j) ==
    /\ i # j
    /\ jobs[i].documentId = jobs[j].documentId
    /\ jobs[i].pc = "returned"
    /\ jobs[j].pc = "returned"

\* the update object of job j's applied success write
JobSuccessUpdate(j) ==
    SuccessUpdate(jobs[j].kind, jobs[j].extractedData, hist[j].wroteAt)

\* the fields of a record that jobs write
MutableContent(r) == [k \in (DOMAIN r) \ {"mediaKind"} |-> r[k]]

\* C11 (as stated): after two executions of the same event, each has made an
\* extraction call and a write to the record, and the record's content is
\* that of the write applied last.
C11_FinalContentIsLastWrite ==
    \A i, j \in Jobs :
        (Redelivered(i, j) /\ LastWriter(j))
        => /\ hist[i].modelCalls >= 1 /\ hist[j].modelCalls >= 1
           /\ rhist[jobs[j].documentId].processedAtWrites >= 2
           /\ MutableContent(store[jobs[j].documentId]) = JobSuccessUpdate(j)

\* C11 (amended): after two executions of the same event, each has made an
\* extraction call and a write to the record, and every field the write
\* applied last sets holds that write's value (a field that only an earlier
\* write set keeps the earlier value).
C11_LastWriteWinsPerField ==
    \A i, j \in Jobs :
        (Redelivered(i, j) /\ LastWriter(j))
        => /\ hist[i].modelCalls >= 1 /\ hist[j].modelCalls >= 1
           /\ rhist[jobs[j].documentId].processedAtWrites >= 2
           /\ \A k \in DOMAIN JobSuccessUpdate(j) :
                 /\ k \in DOMAIN store[jobs[j].documentId]
                 /\ store[jobs[j].documentId][k] = JobSuccessUpdate(j)[k]

\* two executions of the same event returned with different extraction
\* results, and the record carries a field only the earlier write set
C11_Witness ==
    \E i, j \in Jobs :
        /\ Redelivered(i, j)
        /\ LastWriter(j)
        /\ jobs[i].extractedData # jobs[j].extractedData
        /\ DOMAIN MutableContent(store[jobs[j].documentId])
              # DOMAIN JobSuccessUpdate(j)

\* C12: within a job the steps run in the order read, extract, persist,
\* whatever other jobs do in between: the model is called only once the
\* job's source has been read, and the job is in (or past) its database
\* step only once its extraction has returned a result.
C12_StepsInOrder ==
    /\ [](\A j \in Jobs :
            (\/ jobs[j].pc \in {"update-database", "update-database-catch", "returned"}
             \/ hist[j].wroteAt > 0)
            => /\ jobs[j].extractedData # NoData
               /\ hist[j].modelCalls >= 1)
    /\ [][\A j \in Jobs :
            hist'[j].modelCalls > hist[j].modelCalls
            => IF jobs[j].kind = "document"
               THEN jobs[j].fileContent = FileContentOf(jobs[j].filePath)
               ELSE ~hist'[j].sourceMissing]_vars

\* one job has returned while an earlier-started job is still awaiting
\* the model
C12_Witness ==
    \E i, j \in Jobs :
        /\ i < j
        /\ jobs[j].pc = "returned"
        /\ jobs[i].pc \in {"extract-await", "analyze-await"}


\* C13: the dispatcher never starts jobs over capacity: at every moment at
\* most 5 document runs and at most 2 audio runs have been started within
\* the last minute, and each ceiling is counted for its own kind: a waiting
\* event of a kind below its ceiling can start whatever the other kind's count.
C13_NeverOverCapacity ==
    /\ InWindow(dispatcher.events["document"]) <= 5
    /\ InWindow(dispatcher.events["audio"]) <= 2
    /\ ThrottlePeriod = 60
    /\ \A kind \in Kinds :
          (/\ Queued(dispatcher.events[kind]) # {}
           /\ InWindow(dispatcher.events[kind]) < (IF kind = "document" THEN 5 ELSE 2))
          => ENABLED StartJob(kind)

\* both kinds are at their ceiling within the same minute, 7 runs in all,
\* and an event of each kind is waiting
C13_Witness ==
    /\ InWindow(dispatcher.events["document"]) = 5
    /\ InWindow(dispatcher.events["audio"]) = 2
    /\ \A kind \in Kinds : Queued(dispatcher.events[kind]) # {}

\* C14: every accepted upload event eventually starts its job exactly once:
\* an event is never dropped and never started twice, and an event that
\* arrives at the ceiling of its kind waits and is started later: again and
\* again every event sent so far has been started (a started event stays so).
C14_EveryEventStartedOnce ==
    /\ [](\A kind \in Kinds :
            \A i \in 1..Len(dispatcher.events[kind]) :
               LET e == dispatcher.events[kind][i] IN
               /\ e.state \in {"queued", "started"}
               /\ e.starts = (IF e.state = "started" THEN 1 ELSE 0))
    /\ []<>(\A kind \in Kinds :
              \A i \in 1..Len(dispatcher.events[kind]) :
                 dispatcher.events[kind][i].state = "started")

\* an event that arrived at the ceiling of its kind has been started
C14_Witness ==
    \E kind \in Kinds :
       \E i \in 1..Len(dispatcher.events[kind]) :
          /\ dispatcher.events[kind][i].waited
          /\ dispatcher.events[kind][i].state = "started"
          /\ dispatcher.events[kind][i].starts = 1

\* C15: a job execution changes only the record whose identifier is the
\* documentId of its event: every other record, and the set of records, is
\* the same after each of its steps, on the success and the failure path.
C15_OnlyOwnRecord ==
    [][/\ DOMAIN store' = DOMAIN store
       /\ \A d \in DOMAIN store :
             store'[d] # store[d]
             => \E j \in Jobs :
                   /\ jobs[j].documentId = d
                   /\ jobs[j].pc \in {"update-database", "update-database-catch"}
                   /\ jobs'[j] # jobs[j]]_vars

\* one record was completed and another marked failed, each by its own job
C15_Witness ==
    \E d, o \in DOMAIN store :
        /\ store[d].status = "COMPLETED"
        /\ store[o].status = "FAILED"
        /\ \E i, j \in Jobs :
              /\ jobs[i].documentId = d /\ hist[i].successApplied = 1
              /\ jobs[j].documentId = o /\ hist[j].failureApplied = 1

HasDocumentPayload(r) == (DOMAIN r) \cap DocumentKeys # {}
HasAudioPayload(r) == (DOMAIN r) \cap AudioKeys # {}

\* C16 (as stated): in every state each record has exactly one of the two
\* variant payloads populated, the one of its declared media kind.
C16_ExactlyOneVariant ==
    \A d \in DOMAIN store :
        /\ HasDocumentPayload(store[d]) # HasAudioPayload(store[d])
        /\ HasDocumentPayload(store[d]) => store[d].mediaKind = "document"
        /\ HasAudioPayload(store[d]) => store[d].mediaKind = "audio"

\* C16 (amended): in every state each record has at most one of the two
\* variant payloads populated (none before its first success write), and
\* only the one of the media kind declared at creation, which never changes.
C16_OnlyOwnVariant ==
    \A d \in DOMAIN store :
        /\ store[d].mediaKind = MediaKindOf[d]
        /\ ~(HasDocumentPayload(store[d]) /\ HasAudioPayload(store[d]))
        /\ HasDocumentPayload(store[d]) => store[d].mediaKind = "document"
        /\ HasAudioPayload(store[d]) => store[d].mediaKind = "audio"

\* a document record and an audio record have both been completed
C16_Witness ==
    \E d, o \in DOMAIN store :
        /\ store[d].status = "COMPLETED" /\ HasDocumentPayload(store[d])
        /\ store[o].status = "COMPLETED" /\ HasAudioPayload(store[o])

\* the keys of the variant payload a job of this kind extracts
PayloadKeys(kind) == IF kind = "document" THEN DocumentKeys ELSE AudioKeys

\* job j's success write has just been applied
SuccessWriteApplied(j) == hist'[j].successApplied > hist[j].successApplied

\* the write stored key k as the extraction returned it (dates as Date
\* values), and stored nothing for a key the extraction did not return
StoredAsReturned(j, k) ==
    LET d == jobs[j].documentId
        data == jobs[j].extractedData
    IN IF k \in DOMAIN data
       THEN /\ k \in DOMAIN store'[d]
            /\ store'[d][k] = IF k \in {"invoiceDate", "dueDate"}
                              THEN ToDate(data[k]) ELSE data[k]
       ELSE k \in DOMAIN store'[d]
            => k \in DOMAIN store[d] /\ store'[d][k] = store[d][k]

C18_StripTransparent ==
    client.phase = "parsed"
    => /\ client.data = ParseJson(client.json)
       /\ client.wrapping = "unfenced"
          => client.jsonString = Trim(client.responseText)

UnderlyingErrors == {MissingKeyMsg, ApiErrorMsg, ParseErrorMsg}

\* C19: an invocation of extractFinancialData or analyzeAudio calls the
\* model at most once, not at all without the credential, and the error it
\* raises contains the message of the underlying error.
C19_OneCallPerInvocation ==
    \A j \in Jobs :
        /\ hist[j].modelCalls <= hist[j].extractInvoked
        /\ ~apiKey => hist[j].modelCalls = 0
        /\ hist[j].extractionError # NoError
           => /\ \E u \in UnderlyingErrors : IsInfix(u, hist[j].extractionError)
              /\ ~apiKey => IsInfix(MissingKeyMsg, hist[j].extractionError)

\* an invocation failed on a response that is not JSON after its one call,
\* and another failed on the model API
C19_Witness ==
    /\ \E j \in Jobs :
          /\ IsInfix(ParseErrorMsg, hist[j].extractionError)
          /\ hist[j].modelCalls = 1 /\ hist[j].extractInvoked = 1
    /\ \E j \in Jobs : IsInfix(ApiErrorMsg, hist[j].extractionError)

\* C20: when the success write raises (store error or record not found),
\* nothing propagates before the catch block has attempted the failure
\* write {FAILED, processingError = that error's message, processedAt} on
\* the same documentId, after which that same error is raised (or the
\* failure write's own error, if that write raises).
C20_FailureWriteThenRethrow ==
    [][\A j \in Jobs :
          LET d == jobs[j].documentId IN
          /\ (jobs[j].pc = "update-database" /\ jobs'[j].pc = "raised")
                => jobs'[j].error = ConnectErrorMsg
          /\ (jobs[j].pc = "update-database-catch" /\ jobs'[j] # jobs[j])
                => /\ jobs[j].caught # NoError
                   /\ jobs'[j].pc = "raised"
                   /\ \/ /\ jobs'[j].error = StoreErrorMsg2
                         /\ store' = store
                      \/ /\ jobs'[j].error = jobs[j].caught
                         /\ d \in DOMAIN store
                            => /\ store'[d].status = "FAILED"
                               /\ store'[d].processingError = jobs[j].caught
                               /\ store'[d].processedAt = clock]_vars

\* a success write raised a store error, the record was marked FAILED with
\* that message, and the job ended raising that error
C20_Witness ==
    \E j \in Jobs :
        /\ jobs[j].pc = "failed"
        /\ jobs[j].error = StoreErrorMsg
        /\ jobs[j].documentId \in DOMAIN store
        /\ store[jobs[j].documentId].status = "FAILED"
        /\ store[jobs[j].documentId].processingError = StoreErrorMsg

\* job j has been started and no other started job has its documentId
OnlyJobOn(j) ==
    /\ jobs[j].pc # "idle"
    /\ \A i \in Jobs \ {j} :
          jobs[i].pc # "idle" => jobs[i].documentId # jobs[j].documentId

\* C21: jobs for different documentIds do not interfere: under every
\* interleaving of the steps of jobs on distinct records, each record is,
\* after every step and so when the jobs have ended, in the state that its
\* own job's writes alone give it, and a record no job was started for is
\* as it was created.
C21_NoInterference ==
    /\ \A j \in Jobs :
          OnlyJobOn(j)
          => /\ DOMAIN hist[j].alone = {jobs[j].documentId} \cap DOMAIN store
             /\ \A d \in DOMAIN hist[j].alone : store[d] = hist[j].alone[d]
    /\ \A d \in DOMAIN store :
          (\A j \in Jobs : jobs[j].pc # "idle" => jobs[j].documentId # d)
          => store[d] = NewRecord(MediaKindOf[d])

\* two jobs on distinct records have ended, both have written, and the job
\* that was started second wrote first
C21_Witness ==
    \E i, j \in Jobs :
        /\ i < j
        /\ jobs[i].documentId # jobs[j].documentId
        /\ JobEnded(i) /\ JobEnded(j)
        /\ hist[j].wroteAt > 0
        /\ hist[i].wroteAt > hist[j].wroteAt

\* C22: double fault: when the failure write itself raises, the job does
\* not catch it: the step ends raising the failure write's error, not the
\* original one, and the record is left as it was before the step
\* (PROCESSING when nothing had been written to it).
C22_DoubleFault ==
    [][\A j \in Jobs :
          LET d == jobs[j].documentId IN
          (/\ jobs[j].pc = "update-database-catch"
           /\ jobs'[j] # jobs[j]
           /\ store' = store)
          => /\ jobs'[j].pc = "raised"
             /\ d \in DOMAIN store
                => /\ hist'[j].failureWriteErrored
                   /\ jobs'[j].error = StoreErrorMsg2
                   /\ jobs'[j].error # jobs[j].caught
                   /\ rhist[d].processedAtWrites = 0
                      => store'[d].status = "PROCESSING"]_vars

\* a job has ended with the failure write's error after its success write
\* raised a store error, and its record is still PROCESSING
C22_Witness ==
    \E j \in Jobs :
        /\ jobs[j].pc = "failed"
        /\ jobs[j].caught = StoreErrorMsg
        /\ jobs[j].error = StoreErrorMsg2
        /\ hist[j].failureWriteErrored
        /\ jobs[j].documentId \in DOMAIN store
        /\ store[jobs[j].documentId].status = "PROCESSING"

\* the polling timer is set, with a period of 3 seconds, exactly while the
\* view is mounted and displays PROCESSING, and a fetch is issued only then
TimerExactlyWhileProcessing ==
    /\ [](review.timer = (IF review.mounted /\ review.status = "PROCESSING"
                          THEN 3000 ELSE 0))
    /\ [][Len(review'.requests) > Len(review.requests)
          => review.status = "PROCESSING" /\ review.timer = 3000]_vars

\* C23 (as stated): the review view has its polling timer active exactly
\* while its displayed status is PROCESSING, and once a fetched record with
\* status COMPLETED or FAILED has been displayed the timer is cleared and no
\* new fetch is issued.
C23_NoFetchAfterTerminal ==
    /\ TimerExactlyWhileProcessing
    /\ [][review'.shownTerminal
          => /\ Len(review'.requests) = Len(review.requests)
             /\ review'.timer = 0]_vars

\* C24 (as stated): once the review view displays COMPLETED or FAILED, it
\* never displays PROCESSING again, whatever the order in which the
\* responses of the poll requests in flight arrive.
C24_StatusNeverRegresses ==
    [][(review.mounted /\ review.status \in Terminal)
       => review'.status # "PROCESSING"]_vars

\* all fetches of the dashboard have settled and no poll is due
DashboardSettled ==
    /\ dashboard.mounted
    /\ \A i \in 1..Len(dashboard.requests) : dashboard.requests[i].state = "settled"
    /\ dashboard.timer.ms = 0

\* C25 (as stated): on the dashboard, once all outstanding fetches have
\* settled, the displayed list is the result of a request made for the
\* currently selected filter, never that of a request for another filter.
C25_ListMatchesFilter ==
    (DashboardSettled /\ FilteredDocuments(dashboard.documents) # NoDocuments)
    => FilteredDocuments(dashboard.documents).source = dashboard.filter

SettledAttempts ==
    {i \in 1..Len(upload.attempts) : upload.attempts[i].state = "settled"}

C27_UploadingWhileInFlight ==
    (\E i \in 1..Len(upload.attempts) : upload.attempts[i].state = "in-flight")
    => upload.isUploading

====
